---- MODULE Spec2Model ----
(***************************************************************************)
(* A model of src/main.py: the language negotiator, the three read-through *)
(* caches (descriptions, units, per-id data), the negative cache and the   *)
(* bounded put.                                                            *)
(*                                                                         *)
(* Text is modelled as a sequence of one-character strings, so that the    *)
(* splitting, trimming, lower-casing and number parsing of the header are  *)
(* computed the way the code computes them.  Monotonic time is an integer  *)
(* number of seconds.                                                      *)
(***************************************************************************)
EXTENDS Integers, Sequences, FiniteSets, TLC

VARIABLES
    \* ---- negotiate_language: one call ----
    header,           \* the accept_language_header argument
    SUPPORTED_LANGS,  \* configuration, main.py line 18
    DEFAULT_LANG,     \* configuration, main.py line 15
    npc,              \* "call" before the call, "done" after it
    neg,              \* what the call left: [lang, by]
    CANON_KEYS,       \* configuration, main.py line 22
    req,              \* main: the request in progress and its response
    \* ---- the environment of the caches ----
    now,              \* time.monotonic()
    dataFile,         \* id -> content of DATA_PREFIX/<id>.json
    i18nFile,         \* lang -> content of I18N_PREFIX/<lang>.json
    unitsFile,        \* content of UNITS_FILE
    fver,             \* how many times a file was changed (history)
    \* ---- module state of main.py ----
    DATA_CACHE,       \* _DATA_CACHE, a dict in insertion order
    DATA_MISS_CACHE,  \* _DATA_MISS_CACHE, a dict in insertion order
    DESC_CACHE,       \* _DESC_CACHE
    UNITS_CACHE,      \* _UNITS_CACHE.get("units")
    locks,            \* lock name -> holding thread, 0 when free
    \* ---- the callers ----
    focus,            \* which resolver the run exercises
    th,               \* thread -> its call in progress
    hist,             \* <<the last returned call>> (history)
    asked,            \* the keys requested so far (history)
    missed            \* id -> when its last miss was observed (history)

negVars == <<header, SUPPORTED_LANGS, DEFAULT_LANG, npc, neg, CANON_KEYS, req>>
envVars == <<now, dataFile, i18nFile, unitsFile, fver>>
cacheVars == <<DATA_CACHE, DATA_MISS_CACHE, DESC_CACHE, UNITS_CACHE>>
runVars == <<locks, focus, th, hist, asked, missed>>

vars == <<negVars, envVars, cacheVars, runVars>>

(***************************************************************************)
(* Bounds of the model.                                                    *)
(***************************************************************************)
MaxHdrEntries == 3
\* the clock advances in steps of Tick seconds up to MaxTime
Tick == 30
MaxTime == 90
\* the same for the runs with concurrent callers
MaxTimeConcurrent == 60
\* how many times the files change in one run
MaxFileChanges == 1
\* _bounded_put on its own: the capacity of the cache, the puts of one run
PutCapacity == 2
MaxPuts == 4
\* concurrent callers
NThreads == 2

(***************************************************************************)
(* Configuration (environment variables of main.py), set small enough that *)
(* the truncations happen on the headers of the model.                     *)
(***************************************************************************)
MAX_LANG_HEADER_LEN == 20
MAX_LANG_ENTRIES == 2
\* TTLs in seconds, on the scale of Tick
DESC_CACHE_TTL_SECONDS == 60
DATA_CACHE_TTL_SECONDS == 90
UNITS_CACHE_TTL_SECONDS == 60
\* the 60 of min(60, DATA_CACHE_TTL_SECONDS), line 278
MISS_TTL_CAP == 60
MAX_DATA_CACHE_ENTRIES == 1
MAX_MISS_CACHE_ENTRIES == 1

(***************************************************************************)
(* Text helpers: Python's str operations on sequences of characters.       *)
(***************************************************************************)
Min2(a, b) == IF a <= b THEN a ELSE b

\* s[:n]
Take(s, n) == SubSeq(s, 1, Min2(n, Len(s)))

\* s[n:] (0-based n)
Drop(s, n) == SubSeq(s, n + 1, Len(s))

\* str.find(pat): the 1-based index of the first occurrence, 0 when absent
FindSub(s, pat) ==
    LET hits == {i \in 1..(Len(s) - Len(pat) + 1) :
                    SubSeq(s, i, i + Len(pat) - 1) = pat}
    IN IF hits = {} THEN 0 ELSE CHOOSE i \in hits : \A j \in hits : i <= j

\* pat in s
Contains(s, pat) == FindSub(s, pat) # 0

\* str.split(sep) for a one-character separator: every piece, empty ones too
RECURSIVE SplitOn(_, _)
SplitOn(s, sep) ==
    LET i == FindSub(s, <<sep>>)
    IN IF i = 0 THEN <<s>>
       ELSE <<SubSeq(s, 1, i - 1)>> \o SplitOn(Drop(s, i), sep)

IsSpace(c) == c = " "

\* str.strip()
RECURSIVE LStrip(_)
LStrip(s) == IF s # <<>> /\ IsSpace(Head(s)) THEN LStrip(Tail(s)) ELSE s

RECURSIVE RStrip(_)
RStrip(s) ==
    IF s # <<>> /\ IsSpace(s[Len(s)]) THEN RStrip(SubSeq(s, 1, Len(s) - 1)) ELSE s

Strip(s) == LStrip(RStrip(s))

LowerChar(c) ==
    CASE c = "C" -> "c"
      [] c = "D" -> "d"
      [] c = "E" -> "e"
      [] c = "F" -> "f"
      [] c = "H" -> "h"
      [] c = "R" -> "r"
      [] c = "S" -> "s"
      [] c = "U" -> "u"
      [] OTHER -> c

\* str.lower()
Lower(s) == [i \in 1..Len(s) |-> LowerChar(s[i])]

\* lang.split("-")[0]
BaseOf(lang) == SplitOn(lang, "-")[1]

(***************************************************************************)
(* float(q) of Python on the texts the model meets: surrounding blanks, an *)
(* optional sign, digits with an optional fraction ("1", "0.9", "0."), or  *)
(* a fraction alone (".5").  The value is kept in thousandths.  Anything   *)
(* else is the ValueError of line 118.                                     *)
(***************************************************************************)
Digits == {"0", "1", "2", "3", "4", "5", "6", "7", "8", "9"}

DigitVal(c) ==
    CASE c = "0" -> 0 [] c = "1" -> 1 [] c = "2" -> 2 [] c = "3" -> 3
      [] c = "4" -> 4 [] c = "5" -> 5 [] c = "6" -> 6 [] c = "7" -> 7
      [] c = "8" -> 8 [] c = "9" -> 9

AllDigits(s) == \A i \in 1..Len(s) : s[i] \in Digits

RECURSIVE IntVal(_)
IntVal(s) == IF s = <<>> THEN 0
             ELSE 10 * IntVal(SubSeq(s, 1, Len(s) - 1)) + DigitVal(s[Len(s)])

\* the fraction's first three digits, in thousandths
FracVal(s) ==
    LET d(i) == IF i <= Len(s) THEN DigitVal(s[i]) ELSE 0
    IN 100 * d(1) + 10 * d(2) + d(3)

ParseFloat(q) ==
    LET t    == Strip(q)
        neg0 == t # <<>> /\ Head(t) = "-"
        u    == IF t # <<>> /\ Head(t) \in {"-", "+"} THEN Tail(t) ELSE t
        dot  == FindSub(u, <<".">>)
        ip   == IF dot = 0 THEN u ELSE SubSeq(u, 1, dot - 1)
        fp   == IF dot = 0 THEN <<>> ELSE Drop(u, dot)
        ok   == /\ AllDigits(ip) /\ AllDigits(fp)
                /\ (ip # <<>> \/ fp # <<>>)
        mag  == 1000 * IntVal(ip) + FracVal(fp)
    IN IF ok THEN [ok |-> TRUE, v |-> IF neg0 THEN 0 - mag ELSE mag]
       ELSE [ok |-> FALSE, v |-> 0]

(***************************************************************************)
(* negotiate_language, lines 100-137.                                      *)
(***************************************************************************)
\* lines 109-110: the capped header, split, trimmed, empties dropped, capped
Parts(hdr) ==
    LET h      == Take(hdr, MAX_LANG_HEADER_LEN)
        pieces == SplitOn(h, ",")
        kept   == SelectSeq([i \in 1..Len(pieces) |-> Strip(pieces[i])],
                            LAMBDA p : p # <<>>)
    IN Take(kept, MAX_LANG_ENTRIES)

\* lines 114-122: one entry to (lang.lower(), qv, idx); idx is 0-based
ParseEntry(p, idx) ==
    LET i == FindSub(p, <<";", "q", "=">>)
    IN IF i # 0
       THEN LET f == ParseFloat(Drop(p, i + 2))
            IN [lang |-> Lower(SubSeq(p, 1, i - 1)),
                q    |-> IF f.ok THEN f.v ELSE 1000,
                idx  |-> idx]
       ELSE [lang |-> Lower(p), q |-> 1000, idx |-> idx]

Parsed(hdr) ==
    LET parts == Parts(hdr)
    IN [i \in 1..Len(parts) |-> ParseEntry(parts[i], i - 1)]

\* a sort by weight ascending
KeyLessAscending(a, b) == \/ a.q < b.q
                          \/ (a.q = b.q /\ a.idx < b.idx)

\* line 125: key (-q, idx), ascending
KeyLess(a, b) == \/ (0 - a.q) < (0 - b.q)
                 \/ ((0 - a.q) = (0 - b.q) /\ a.idx < b.idx)

\* list.sort: insertion into the sorted prefix, stable
RECURSIVE InsertSorted(_, _)
InsertSorted(x, s) ==
    IF s = <<>> THEN <<x>>
    ELSE IF KeyLess(x, Head(s)) THEN <<x>> \o s
    ELSE <<Head(s)>> \o InsertSorted(x, Tail(s))

RECURSIVE SortParsed(_)
SortParsed(s) ==
    IF s = <<>> THEN <<>>
    ELSE InsertSorted(s[Len(s)], SortParsed(SubSeq(s, 1, Len(s) - 1)))

\* a skip of the negative weights only
UnacceptableNegative(q) == q < 0

\* line 128: the entry is skipped
Unacceptable(q) == q <= 0

\* a walk that returns the region-qualified tag on a base match
RECURSIVE WalkReturnsTag(_, _, _)
WalkReturnsTag(sorted, S, d) ==
    IF sorted = <<>> THEN [lang |-> d, by |-> 0 - 1]
    ELSE LET c == Head(sorted)
         IN IF Unacceptable(c.q) THEN WalkReturnsTag(Tail(sorted), S, d)
            ELSE IF c.lang \in S THEN [lang |-> c.lang, by |-> c.idx]
            ELSE IF Contains(c.lang, <<"-">>) /\ BaseOf(c.lang) \in S
                 THEN [lang |-> c.lang, by |-> c.idx]
            ELSE WalkReturnsTag(Tail(sorted), S, d)

\* lines 127-137: the walk; `by` is the idx of the entry that returned, -1
\* when the walk fell through to line 137
RECURSIVE Walk(_, _, _)
Walk(sorted, S, d) ==
    IF sorted = <<>> THEN [lang |-> d, by |-> 0 - 1]
    ELSE LET c == Head(sorted)
         IN IF Unacceptable(c.q) THEN Walk(Tail(sorted), S, d)
            ELSE IF c.lang \in S THEN [lang |-> c.lang, by |-> c.idx]
            ELSE IF Contains(c.lang, <<"-">>) /\ BaseOf(c.lang) \in S
                 THEN [lang |-> BaseOf(c.lang), by |-> c.idx]
            ELSE Walk(Tail(sorted), S, d)

negotiate_language(hdr, S, d) ==
    IF hdr = <<>> THEN [lang |-> d, by |-> 0 - 1]
    ELSE Walk(SortParsed(Parsed(hdr)), S, d)

(***************************************************************************)
(* The headers of the model: up to MaxHdrEntries entries joined by commas. *)
(***************************************************************************)
HdrEntries ==
    { <<"d","e","-","C","H",";","q","=","0",".","9">>,
      <<"f","r",";","q","=","0",".","9">>,
      <<"f","r",";","q","=","0">>,
      <<"d","e">>,
      <<" ","F","R">>,
      <<"e","n","-","U","S",";","q","=","0",".","5">>,
      <<"i","t",";","q","=","x">>,
      <<"f","r","-","C","H",";","q","=","-","1">>,
      <<"e","n",";","q","=","1">>,
      <<>> }

RECURSIVE Join(_)
Join(es) == IF es = <<>> THEN <<>>
            ELSE IF Len(es) = 1 THEN es[1]
            ELSE es[1] \o <<",">> \o Join(Tail(es))

Headers ==
    UNION { { Join(es) : es \in [1..n -> HdrEntries] } : n \in 0..MaxHdrEntries }

LangDe == <<"d","e">>
LangFr == <<"f","r">>
LangEn == <<"e","n">>
Langs == {LangDe, LangFr, LangEn}

(***************************************************************************)
(* Values.  A JSON value is [t, n]: its type and, for a number its value,  *)
(* for a string or a list its length, for a bool 0 or 1, and for a dict    *)
(* the name of the mapping it holds (0 is the empty dict {}).              *)
(***************************************************************************)
JNull == [t |-> "null", n |-> 0]
JMissing == [t |-> "missing", n |-> 0]
JFalse == [t |-> "bool", n |-> 0]
JEmptyDict == [t |-> "dict", n |-> 0]
JDict(n) == [t |-> "dict", n |-> n]
JList(n) == [t |-> "list", n |-> n]

\* the keys the mappings of the model hold: JDict(n) holds KeyNames[i] for
\* every bit i set in n
KeyNames == << <<"b">>, <<"a","b">>, <<"a">> >>
KeysOf(d) ==
    {KeyNames[i] : i \in {j \in 1..Len(KeyNames) :
                             (d.n \div (2 ^ (j - 1))) % 2 = 1}}

\* bool(x) of Python
Truthy(x) == x.t \notin {"null", "missing"} /\ x.n # 0

\* isinstance(x, dict)
IsDict(x) == x.t = "dict"

(***************************************************************************)
(* Files.  A file is absent, unparsable, or holds a JSON value v; d is the *)
(* value of the "data" member of v (JMissing when v has none).             *)
(***************************************************************************)
FAbsent == [kind |-> "absent", v |-> JNull, d |-> JMissing]
FJson(v, d) == [kind |-> "json", v |-> v, d |-> d]

\* { "id": ..., "data": { ... } }
FDataMap == FJson(JDict(1), JDict(2))
\* [ ... ] at the top level
FTopList == FJson(JList(1), JMissing)
\* { "id": ..., "data": false }
FDataFalse == FJson(JDict(1), JFalse)
\* { "id": ..., "data": [1] }
FDataList == FJson(JDict(1), JList(1))

DataContents == {FAbsent, FDataMap, FTopList, FDataFalse, FDataList}
\* what the file of the second id goes through
OtherContents == {FAbsent, FDataMap}

IdX == <<"i","d","0","1">>
IdY == <<"i","d","0","2">>
Ids == {IdX, IdY}

LangDeCh == <<"d","e","-","c","h">>
DescKeys == {LangDeCh, LangDe, LangEn}

\* the table a well-formed i18n file of a language holds
TableOf(l) == IF l = LangDeCh THEN JDict(3) ELSE IF l = LangDe THEN JDict(4)
              ELSE JDict(5)
FTable(l) == FJson(TableOf(l), JMissing)
\* what the file of a language goes through; the base language's file is
\* also met with a list in it
I18nContents(l) == IF l = LangDe THEN {FAbsent, FTable(l), FTopList}
                   ELSE {FAbsent, FTable(l)}

FUnits == FJson(JDict(6), JMissing)
UnitsContents == {FAbsent, FUnits, FTopList}

\* _load_json_file, lines 171-173: the value, or the exception raised
LoadJsonFile(content) ==
    IF content.kind = "absent" THEN [out |-> "FileNotFoundError", raw |-> content]
    ELSE IF content.kind = "garbage" THEN [out |-> "JSONDecodeError", raw |-> content]
    ELSE [out |-> "ok", raw |-> content]

\* _validate_item_id, lines 66-74: TRUE when the id passes
IdChars == {"a","b","c","d","e","f","g","h","i","j","k","l","m","n","o","p",
            "q","r","s","t","u","v","w","x","y","z"} \cup Digits
\* a validation that checks the length only
ValidItemIdLengthOnly(id) == Len(id) = 4

\* _validate_item_id, lines 66-74
ValidItemId(id) == Len(id) = 4 /\ \A i \in 1..Len(id) : id[i] \in IdChars

\* the character order of the keys (digits before lower-case letters)
KeyAlphabet ==
    <<"0","1","2","3","4","5","6","7","8","9","a","b","c","d","e","f","g",
      "h","i","j","k","l","m","n","o","p","q","r","s","t","u","v","w","x",
      "y","z">>
CharOrd(c) == CHOOSE i \in 1..Len(KeyAlphabet) : KeyAlphabet[i] = c

\* a < b for Python strings
RECURSIVE StrLess(_, _)
StrLess(a, b) ==
    IF b = <<>> THEN FALSE
    ELSE IF a = <<>> THEN TRUE
    ELSE IF Head(a) = Head(b) THEN StrLess(Tail(a), Tail(b))
    ELSE CharOrd(Head(a)) < CharOrd(Head(b))

\* sorted(S) for a set of strings
RECURSIVE Sorted(_)
Sorted(S) ==
    IF S = {} THEN <<>>
    ELSE LET m == CHOOSE x \in S : \A y \in S \ {x} : StrLess(x, y)
         IN <<m>> \o Sorted(S \ {m})

\* an ordering that forgets to leave out the keys already listed
determine_output_keys_repeating(descriptions, values_map, units_map) ==
    IF CANON_KEYS # <<>> THEN CANON_KEYS
    ELSE Sorted(KeysOf(descriptions)) \o Sorted(KeysOf(values_map))
            \o Sorted(KeysOf(units_map))

\* _determine_output_keys, lines 285-304
determine_output_keys(descriptions, values_map, units_map) ==
    IF CANON_KEYS # <<>> THEN CANON_KEYS
    ELSE LET desc_keys == KeysOf(descriptions)
             val_keys  == KeysOf(values_map)
             unit_keys == KeysOf(units_map)
             first  == Sorted(desc_keys)
             second == Sorted(val_keys \ desc_keys)
             third  == Sorted((unit_keys \ desc_keys) \ val_keys)
         IN first \o second \o third

\* _normalize_lang_for_header, lines 140-142
normalize_lang_for_header(lang) ==
    IF Contains(lang, <<"-">>) THEN BaseOf(lang) ELSE lang

\* main: no request yet
NoReq ==
    [item_id |-> <<>>, descriptions |-> JNull, units_map |-> JNull,
     values_map |-> JNull, snap |-> <<>>, again |-> <<>>,
     response |-> [statusCode |-> 0, lang |-> <<>>, keys |-> <<>>]]

(***************************************************************************)
(* Python dicts in insertion order: a sequence of [k, v].                  *)
(***************************************************************************)
DictKeys(c) == {c[i].k : i \in 1..Len(c)}
DictHas(c, k) == k \in DictKeys(c)
DictIndex(c, k) == CHOOSE i \in 1..Len(c) : c[i].k = k
DictGet(c, k, default) == IF DictHas(c, k) THEN c[DictIndex(c, k)].v ELSE default
\* c[k] = v: an existing key keeps its place, a new one goes last
DictSet(c, k, v) ==
    IF DictHas(c, k) THEN [c EXCEPT ![DictIndex(c, k)] = [k |-> k, v |-> v]]
    ELSE Append(c, [k |-> k, v |-> v])
\* c.pop(k, None)
DictPop(c, k) == SelectSeq(c, LAMBDA e : e.k # k)
\* c.pop(next(iter(c)))
DictPopFirst(c) == Tail(c)

\* a cache entry {"data"/"data_map"/"units": v, "loaded_at_mono": at}, or
\* None (has = FALSE)
NoEntry == [has |-> FALSE, v |-> JNull, at |-> 0]
Entry(v, at) == [has |-> TRUE, v |-> v, at |-> at]
\* a negative-cache value (an expiry), or None
NoMiss == [has |-> FALSE, exp |-> 0]
Miss(exp) == [has |-> TRUE, exp |-> exp]

\* a freshness test that keeps the entry one instant too long
cache_fresh_inclusive(entry, ttl_seconds, now_mono) ==
    entry.has /\ (now_mono - entry.at <= ttl_seconds)

\* a freshness test with the comparison the wrong way round
cache_fresh_inverted(entry, ttl_seconds, now_mono) ==
    entry.has /\ (now_mono - entry.at > ttl_seconds)

\* cache_fresh, lines 78-84
cache_fresh(entry, ttl_seconds, now_mono) ==
    entry.has /\ (now_mono - entry.at < ttl_seconds)

\* a put that evicts only past the capacity
bounded_put_late_eviction(cache, key, value, max_entries) ==
    LET c1 == IF Len(cache) > max_entries THEN DictPopFirst(cache) ELSE cache
    IN DictSet(c1, key, value)

\* a put that appends without looking for the key
bounded_put_append(cache, key, value, max_entries) ==
    LET c1 == IF Len(cache) >= max_entries THEN DictPopFirst(cache) ELSE cache
    IN Append(c1, [k |-> key, v |-> value])

\* _bounded_put, lines 95-97 (the body run under the lock)
bounded_put(cache, key, value, max_entries) ==
    LET c1 == IF Len(cache) >= max_entries THEN DictPopFirst(cache) ELSE cache
    IN DictSet(c1, key, value)

\* min(60, DATA_CACHE_TTL_SECONDS), line 278
MissTtl == Min2(MISS_TTL_CAP, DATA_CACHE_TTL_SECONDS)

(***************************************************************************)
(* Callers.  th[t] is the call thread t is in.                             *)
(***************************************************************************)
Threads == 1..NThreads

ROk(v) == [kind |-> "ok", v |-> v, err |-> ""]
RAbsent == [kind |-> "absent", v |-> JNull, err |-> ""]
RErr(e) == [kind |-> "error", v |-> JNull, err |-> e]
NoRes == [kind |-> "", v |-> JNull, err |-> ""]

NoSnap == <<>>
Snap == <<DATA_CACHE, DATA_MISS_CACHE, DESC_CACHE, UNITS_CACHE>>

IdleCall ==
    [pc |-> "idle", op |-> "", key |-> <<>>, now_mono |-> 0, ci |-> 0,
     val |-> JNull, res |-> NoRes, att |-> <<>>, by |-> <<>>,
     pre |-> NoEntry, fv0 |-> 0, snap |-> NoSnap]

\* thread t is between two calls
AtRest(t) == th[t].pc \in {"idle", "ret"}

\* the call thread t enters: now_mono = time.monotonic() is its first line
\* (182, 214, 240); pre, fv0 and snap are history
Enter(t, op, key, pc, preEntry, log) ==
    th' = [th EXCEPT ![t] =
             [IdleCall EXCEPT !.pc = pc, !.op = op, !.key = key,
                              !.now_mono = now,
                              !.pre = IF log THEN preEntry ELSE NoEntry,
                              !.fv0 = IF log THEN fver ELSE 0,
                              !.snap = IF log THEN Snap ELSE NoSnap]]

Goto(t, pc) == th' = [th EXCEPT ![t].pc = pc]

\* return or raise: the call is over, its outcome is res
Finish(t, res, by) ==
    th' = [th EXCEPT ![t].pc = "ret", ![t].res = res, ![t].by = by]

\* `with lock:` entered / left
Acquire(t, l) == locks[l] = 0 /\ locks' = [locks EXCEPT ![l] = t]

\* a `with` block left with the lock still held
ReleaseSkipped(t, l) == UNCHANGED locks

Release(t, l) == locks' = [locks EXCEPT ![l] = 0]

(***************************************************************************)
(* History: the call that returned last, kept when the next one starts.    *)
(***************************************************************************)
NoPost == [kind |-> "none", has |-> FALSE, at |-> 0]

\* the cache record that backs the outcome of a finished call: the entry of
\* the key that served it, or the negative record of an absent id
PostOf(call) ==
    IF call.res.kind = "ok"
    THEN LET e == IF call.op = "data" THEN DictGet(DATA_CACHE, call.key, NoEntry)
                  ELSE IF call.op = "units" THEN UNITS_CACHE
                  ELSE DESC_CACHE[call.by]
         IN [kind |-> "pos", has |-> e.has, at |-> e.at]
    ELSE IF call.res.kind = "absent"
    THEN LET m == DictGet(DATA_MISS_CACHE, call.key, NoMiss)
         IN [kind |-> "neg", has |-> m.has, at |-> m.exp]
    ELSE NoPost

CallRecord(call) ==
    [op |-> call.op, key |-> call.key, res |-> call.res, by |-> call.by,
     post |-> PostOf(call), fv0 |-> call.fv0]

\* the misses observed so far, once `call` has returned: a call that found
\* its file absent is the latest miss of its id; a call issued at or after
\* the expiry of the miss before it closes that miss
MissedAfter(call) ==
    IF call.att # <<>> /\ call.att[Len(call.att)].out = "FileNotFoundError"
    THEN [missed EXCEPT ![call.key] = call.now_mono]
    ELSE IF missed[call.key] >= 0 /\ call.now_mono >= missed[call.key] + MissTtl
    THEN [missed EXCEPT ![call.key] = 0 - 1]
    ELSE missed

\* with log (one caller) the call that just returned is kept; without it
\* (concurrent callers) the requested keys are
Logged(t, key, log) ==
    /\ hist' = IF log /\ th[t].pc = "ret" THEN <<CallRecord(th[t])>> ELSE hist
    /\ asked' = IF log THEN asked ELSE asked \cup {key}
    /\ missed' = IF log /\ th[t].pc = "ret" /\ th[t].op = "data"
                 THEN MissedAfter(th[t]) ELSE missed

(***************************************************************************)
(* get_data_map, lines 234-282.  One action per shared-state access; the   *)
(* body of a `with lock:` block is one action.                             *)
(***************************************************************************)
\* line 240
CallData(t, id, log) ==
    /\ focus \in {"data", "live"}
    /\ AtRest(t)
    /\ Enter(t, "data", id, "d_miss", DictGet(DATA_CACHE, id, NoEntry), log)
    /\ Logged(t, id, log)
    /\ UNCHANGED <<negVars, envVars, cacheVars, locks, focus>>

\* a fast path that trusts an expired record
MissRecordLiveAlways(miss_exp, now_mono) == miss_exp.has

\* line 244: `miss_exp and miss_exp > now_mono`
MissRecordLive(miss_exp, now_mono) ==
    miss_exp.has /\ miss_exp.exp # 0 /\ miss_exp.exp > now_mono

\* lines 243-245: the negative cache's fast path
DataCheckMiss(t) ==
    /\ th[t].pc = "d_miss"
    /\ LET miss_exp == DictGet(DATA_MISS_CACHE, th[t].key, NoMiss)
       IN IF MissRecordLive(miss_exp, th[t].now_mono)
          THEN Finish(t, RAbsent, th[t].key)
          ELSE Goto(t, "d_pos")
    /\ UNCHANGED <<negVars, envVars, cacheVars, locks, focus, hist, asked, missed>>

\* lines 247-249: the positive cache
DataCheckFresh(t) ==
    /\ th[t].pc = "d_pos"
    /\ LET entry == DictGet(DATA_CACHE, th[t].key, NoEntry)
       IN IF cache_fresh(entry, DATA_CACHE_TTL_SECONDS, th[t].now_mono)
          THEN Finish(t, ROk(entry.v), th[t].key)
          ELSE Goto(t, "d_load")
    /\ UNCHANGED <<negVars, envVars, cacheVars, locks, focus, hist, asked, missed>>

\* a data member replaced by {} whatever it is
DataMemberEmpty(raw) == JEmptyDict

\* line 256: raw.get("data") or {}
DataMember(raw) ==
    LET got == IF raw.d.t = "missing" THEN JNull ELSE raw.d
    IN IF Truthy(got) THEN got ELSE JEmptyDict

\* lines 252-258 and the except clause of 273: what the load ends in
DataLoadOutcome(id, content) ==
    IF ~ValidItemId(id) THEN [out |-> "ValueError", val |-> JNull]
    ELSE LET ld == LoadJsonFile(content)
         IN IF ld.out # "ok" THEN [out |-> ld.out, val |-> JNull]
            ELSE IF ~IsDict(ld.raw.v) THEN [out |-> "ValueError", val |-> JNull]
            ELSE IF ~IsDict(DataMember(ld.raw))
                 THEN [out |-> "ValueError", val |-> JNull]
            ELSE [out |-> "ok", val |-> DataMember(ld.raw)]

DataLoad(t) ==
    /\ th[t].pc = "d_load"
    /\ LET o == DataLoadOutcome(th[t].key, dataFile[th[t].key])
           a == Append(th[t].att, [k |-> th[t].key, out |-> o.out])
       IN th' = [th EXCEPT
                   ![t].att = a,
                   ![t].val = o.val,
                   ![t].pc  = IF o.out = "ok" THEN "d_lock"
                              ELSE IF o.out = "FileNotFoundError" THEN "m_lock"
                              ELSE "ret",
                   ![t].res = IF o.out \in {"ok", "FileNotFoundError"} THEN NoRes
                              ELSE RErr(o.out),
                   ![t].by  = th[t].key]
    /\ UNCHANGED <<negVars, envVars, cacheVars, locks, focus, hist, asked, missed>>

\* line 94, for _DATA_CACHE
DataLock(t) ==
    /\ th[t].pc = "d_lock"
    /\ Acquire(t, "DATA")
    /\ Goto(t, "d_put")
    /\ UNCHANGED <<negVars, envVars, cacheVars, focus, hist, asked, missed>>

\* the timestamp an entry is given: the call's now_mono (lines 200, 224, 263)
LoadedAt(call) == call.now_mono

\* lines 260-266
DataPut(t) ==
    /\ th[t].pc = "d_put"
    /\ DATA_CACHE' = bounded_put(DATA_CACHE, th[t].key,
                                 Entry(th[t].val, LoadedAt(th[t])),
                                 MAX_DATA_CACHE_ENTRIES)
    /\ Release(t, "DATA")
    /\ Goto(t, "d_chk")
    /\ UNCHANGED <<negVars, envVars, DATA_MISS_CACHE, DESC_CACHE, UNITS_CACHE,
                   focus, hist, asked, missed>>

\* line 268: `if item_id in _DATA_MISS_CACHE`
DataCheckMissMember(t) ==
    /\ th[t].pc = "d_chk"
    /\ IF DictHas(DATA_MISS_CACHE, th[t].key)
       THEN Goto(t, "c_lock")
       ELSE Goto(t, "d_ret")
    /\ UNCHANGED <<negVars, envVars, cacheVars, locks, focus, hist, asked, missed>>

\* line 269
MissClearLock(t) ==
    /\ th[t].pc = "c_lock"
    /\ Acquire(t, "MISS")
    /\ Goto(t, "c_pop")
    /\ UNCHANGED <<negVars, envVars, cacheVars, focus, hist, asked, missed>>

\* lines 270-271
MissClear(t) ==
    /\ th[t].pc = "c_pop"
    /\ DATA_MISS_CACHE' = DictPop(DATA_MISS_CACHE, th[t].key)
    /\ Release(t, "MISS")
    /\ Goto(t, "d_ret")
    /\ UNCHANGED <<negVars, envVars, DATA_CACHE, DESC_CACHE, UNITS_CACHE,
                   focus, hist, asked, missed>>

\* line 272: `return data_map`, a step of its own after the check of 268
\* (or the pop of 271), so that other threads may run in between
DataReturn(t) ==
    /\ th[t].pc = "d_ret"
    /\ Finish(t, ROk(th[t].val), th[t].key)
    /\ UNCHANGED <<negVars, envVars, cacheVars, locks, focus, hist, asked, missed>>

\* line 94, for _DATA_MISS_CACHE
MissLock(t) ==
    /\ th[t].pc = "m_lock"
    /\ Acquire(t, "MISS")
    /\ Goto(t, "m_put")
    /\ UNCHANGED <<negVars, envVars, cacheVars, focus, hist, asked, missed>>

\* lines 275-282
MissPut(t) ==
    /\ th[t].pc = "m_put"
    /\ DATA_MISS_CACHE' = bounded_put(DATA_MISS_CACHE, th[t].key,
                                      Miss(th[t].now_mono + MissTtl),
                                      MAX_MISS_CACHE_ENTRIES)
    /\ Release(t, "MISS")
    /\ Finish(t, RAbsent, th[t].key)
    /\ UNCHANGED <<negVars, envVars, DATA_CACHE, DESC_CACHE, UNITS_CACHE,
                   focus, hist, asked, missed>>

(***************************************************************************)
(* get_units_map, lines 209-230.                                           *)
(***************************************************************************)
UnitsKey == <<"u","n","i","t","s">>

\* line 214
CallUnits(t, log) ==
    /\ focus \in {"units", "live"}
    /\ AtRest(t)
    /\ Enter(t, "units", UnitsKey, "u_check", UNITS_CACHE, log)
    /\ Logged(t, UnitsKey, log)
    /\ UNCHANGED <<negVars, envVars, cacheVars, locks, focus>>

\* lines 215-217
UnitsCheckFresh(t) ==
    /\ th[t].pc = "u_check"
    /\ IF cache_fresh(UNITS_CACHE, UNITS_CACHE_TTL_SECONDS, th[t].now_mono)
       THEN Finish(t, ROk(UNITS_CACHE.v), UnitsKey)
       ELSE Goto(t, "u_load")
    /\ UNCHANGED <<negVars, envVars, cacheVars, locks, focus, hist, asked, missed>>

\* a load that turns a missing units file into None, not {}
UnitsLoadOutcomeNone(content) ==
    LET ld == LoadJsonFile(content)
    IN IF ld.out # "ok" THEN [out |-> ld.out, val |-> JNull]
       ELSE IF ~IsDict(ld.raw.v) THEN [out |-> "ValueError", val |-> JNull]
       ELSE [out |-> "ok", val |-> ld.raw.v]

\* lines 220-222 and the except clause of 226: what the load ends in
UnitsLoadOutcome(content) ==
    LET ld == LoadJsonFile(content)
    IN IF ld.out = "FileNotFoundError" THEN [out |-> ld.out, val |-> JEmptyDict]
       ELSE IF ld.out # "ok" THEN [out |-> ld.out, val |-> JNull]
       ELSE IF ~IsDict(ld.raw.v) THEN [out |-> "ValueError", val |-> JNull]
       ELSE [out |-> "ok", val |-> ld.raw.v]

UnitsLoad(t) ==
    /\ th[t].pc = "u_load"
    /\ LET o == UnitsLoadOutcome(unitsFile)
           a == Append(th[t].att, [k |-> UnitsKey, out |-> o.out])
           cached == o.out \in {"ok", "FileNotFoundError"}
       IN th' = [th EXCEPT
                   ![t].att = a,
                   ![t].val = o.val,
                   ![t].pc  = IF cached THEN "u_lock" ELSE "ret",
                   ![t].res = IF cached THEN NoRes ELSE RErr(o.out),
                   ![t].by  = UnitsKey]
    /\ UNCHANGED <<negVars, envVars, cacheVars, locks, focus, hist, asked, missed>>

\* lines 223 and 228
UnitsLock(t) ==
    /\ th[t].pc = "u_lock"
    /\ Acquire(t, "UNITS")
    /\ Goto(t, "u_put")
    /\ UNCHANGED <<negVars, envVars, cacheVars, focus, hist, asked, missed>>

\* lines 224-225 and 229-230
UnitsPut(t) ==
    /\ th[t].pc = "u_put"
    /\ UNITS_CACHE' = Entry(th[t].val, LoadedAt(th[t]))
    /\ Release(t, "UNITS")
    /\ Finish(t, ROk(th[t].val), UnitsKey)
    /\ UNCHANGED <<negVars, envVars, DATA_CACHE, DATA_MISS_CACHE, DESC_CACHE,
                   focus, hist, asked, missed>>

(***************************************************************************)
(* get_descriptions, lines 177-205.                                        *)
(***************************************************************************)
\* line 185 with the skips of 186: the candidates in order, None, "" and
\* repeats left out
RECURSIVE Dedup(_, _)
Dedup(s, tried) ==
    IF s = <<>> THEN <<>>
    ELSE IF Head(s) = <<>> \/ Head(s) \in tried THEN Dedup(Tail(s), tried)
    ELSE <<Head(s)>> \o Dedup(Tail(s), tried \cup {Head(s)})

\* a chain that keeps the repeats (no `tried` set)
ChainNoDedup(lang) ==
    SelectSeq(<<lang,
                IF Contains(lang, <<"-">>) THEN BaseOf(lang) ELSE <<>>,
                DEFAULT_LANG>>, LAMBDA c : c # <<>>)

\* a chain that goes from the requested language straight to the default
ChainNoBase(lang) == Dedup(<<lang, DEFAULT_LANG>>, {})

Chain(lang) ==
    Dedup(<<lang,
            IF Contains(lang, <<"-">>) THEN BaseOf(lang) ELSE <<>>,
            DEFAULT_LANG>>, {})

\* line 182
CallDesc(t, lang, log) ==
    /\ focus \in {"desc", "live"}
    /\ AtRest(t)
    /\ Enter(t, "desc", lang, "g_check", DESC_CACHE[lang], log)
    /\ Logged(t, lang, log)
    /\ UNCHANGED <<negVars, envVars, cacheVars, locks, focus>>

\* the candidate the loop is at
Candidate(call) == Chain(call.key)[call.ci + 1]

\* lines 190-192
DescCheckFresh(t) ==
    /\ th[t].pc = "g_check"
    /\ LET entry == DESC_CACHE[Candidate(th[t])]
       IN IF cache_fresh(entry, DESC_CACHE_TTL_SECONDS, th[t].now_mono)
          THEN Finish(t, ROk(entry.v), Candidate(th[t]))
          ELSE Goto(t, "g_load")
    /\ UNCHANGED <<negVars, envVars, cacheVars, locks, focus, hist, asked, missed>>

\* lines 195-197 and the except clause of 202: what the load ends in
DescLoadOutcome(content) ==
    LET ld == LoadJsonFile(content)
    IN IF ld.out # "ok" THEN [out |-> ld.out, val |-> JNull]
       ELSE IF ~IsDict(ld.raw.v) THEN [out |-> "ValueError", val |-> JNull]
       ELSE [out |-> "ok", val |-> ld.raw.v]

\* lines 194-205: the load of one candidate; on FileNotFoundError the loop
\* moves on, and raises RuntimeError past the last candidate
DescLoad(t) ==
    /\ th[t].pc = "g_load"
    /\ LET c == Candidate(th[t])
           o == DescLoadOutcome(i18nFile[c])
           a == Append(th[t].att, [k |-> c, out |-> o.out])
           last == th[t].ci + 1 = Len(Chain(th[t].key))
       IN th' = [th EXCEPT
                   ![t].att = a,
                   ![t].val = o.val,
                   ![t].ci  = IF o.out = "FileNotFoundError" /\ ~last
                              THEN th[t].ci + 1 ELSE th[t].ci,
                   ![t].pc  = IF o.out = "ok" THEN "g_lock"
                              ELSE IF o.out = "FileNotFoundError" /\ ~last
                                   THEN "g_check"
                              ELSE "ret",
                   ![t].res = IF o.out = "ok" THEN NoRes
                              ELSE IF o.out = "FileNotFoundError"
                                   THEN (IF last THEN RErr("RuntimeError")
                                         ELSE NoRes)
                              ELSE RErr(o.out),
                   ![t].by  = c]
    /\ UNCHANGED <<negVars, envVars, cacheVars, locks, focus, hist, asked, missed>>

\* line 199
DescLock(t) ==
    /\ th[t].pc = "g_lock"
    /\ Acquire(t, "DESC")
    /\ Goto(t, "g_put")
    /\ UNCHANGED <<negVars, envVars, cacheVars, focus, hist, asked, missed>>

\* a cache key that is the language asked for, whichever candidate loaded
DescCacheKeyRequested(call) == call.key

\* line 200: the key written is `cand`, the candidate that was loaded
DescCacheKey(call) == Candidate(call)

\* lines 200-201
DescPut(t) ==
    /\ th[t].pc = "g_put"
    /\ DESC_CACHE' = [DESC_CACHE EXCEPT ![DescCacheKey(th[t])] =
                         Entry(th[t].val, LoadedAt(th[t]))]
    /\ Release(t, "DESC")
    /\ Finish(t, ROk(th[t].val), Candidate(th[t]))
    /\ UNCHANGED <<negVars, envVars, DATA_CACHE, DATA_MISS_CACHE, UNITS_CACHE,
                   focus, hist, asked, missed>>

(***************************************************************************)
(* The environment: the clock and the files.                               *)
(***************************************************************************)
ClockTick(limit) ==
    /\ now + Tick <= limit
    /\ now' = now + Tick
    /\ UNCHANGED <<negVars, dataFile, i18nFile, unitsFile, fver, cacheVars,
                   runVars>>

ChangeDataFile(id, c) ==
    /\ focus \in {"data", "main", "live"}
    /\ fver < MaxFileChanges
    /\ c # dataFile[id]
    /\ dataFile' = [dataFile EXCEPT ![id] = c]
    /\ fver' = fver + 1
    /\ UNCHANGED <<negVars, now, i18nFile, unitsFile, cacheVars, runVars>>

ChangeI18nFile(l, c) ==
    /\ focus = "desc"
    /\ fver < MaxFileChanges
    /\ c # i18nFile[l]
    /\ i18nFile' = [i18nFile EXCEPT ![l] = c]
    /\ fver' = fver + 1
    /\ UNCHANGED <<negVars, now, dataFile, unitsFile, cacheVars, runVars>>

ChangeUnitsFile(c) ==
    /\ focus = "units"
    /\ fver < MaxFileChanges
    /\ c # unitsFile
    /\ unitsFile' = c
    /\ fver' = fver + 1
    /\ UNCHANGED <<negVars, now, dataFile, i18nFile, cacheVars, runVars>>

DataFilesNext ==
    \/ \E c \in DataContents : ChangeDataFile(IdX, c)
    \/ \E c \in OtherContents : ChangeDataFile(IdY, c)

EnvNext ==
    \/ ClockTick(MaxTime)
    \/ DataFilesNext
    \/ \E l \in DescKeys : \E c \in I18nContents(l) : ChangeI18nFile(l, c)
    \/ \E c \in UnitsContents : ChangeUnitsFile(c)

(***************************************************************************)
(* Initial states.                                                         *)
(***************************************************************************)
\* the module state right after import (lines 42-55)
ModuleInit ==
    /\ DATA_CACHE = <<>>
    /\ DATA_MISS_CACHE = <<>>
    /\ DESC_CACHE = [l \in DescKeys |-> NoEntry]
    /\ UNITS_CACHE = NoEntry
    /\ locks = [l \in {"DESC", "DATA", "UNITS", "MISS"} |-> 0]
    /\ th = [t \in Threads |-> IdleCall]
    /\ hist = <<>>
    /\ asked = {}
    /\ missed = [id \in Ids |-> 0 - 1]

NoFiles ==
    /\ dataFile = [id \in Ids |-> FAbsent]
    /\ i18nFile = [l \in DescKeys |-> FAbsent]
    /\ unitsFile = FAbsent

\* no negotiation in a run of the caches
NegOff ==
    /\ header = <<>>
    /\ SUPPORTED_LANGS = Langs
    /\ DEFAULT_LANG = LangEn
    /\ npc = "off"
    /\ neg = [lang |-> <<>>, by |-> 0 - 1]
    /\ CANON_KEYS = <<>>
    /\ req = NoReq

CacheInit ==
    /\ NegOff
    /\ ModuleInit
    /\ now = 0
    /\ fver = 0
    /\ focus \in {"data", "units", "desc"}
    /\ dataFile \in [Ids -> DataContents]
    /\ dataFile[IdY] \in OtherContents
    /\ i18nFile \in [DescKeys -> UNION {I18nContents(l) : l \in DescKeys}]
    /\ \A l \in DescKeys : i18nFile[l] \in I18nContents(l)
    /\ unitsFile \in UnitsContents
    /\ focus # "data" => dataFile = [id \in Ids |-> FAbsent]
    /\ focus # "desc" => i18nFile = [l \in DescKeys |-> FAbsent]
    /\ focus # "units" => unitsFile = FAbsent

(***************************************************************************)
(* The steps of one thread.                                                *)
(***************************************************************************)
DataSteps(t) ==
    \/ DataCheckMiss(t)
    \/ DataCheckFresh(t)
    \/ DataLoad(t)
    \/ DataLock(t)
    \/ DataPut(t)
    \/ DataCheckMissMember(t)
    \/ MissClearLock(t)
    \/ MissClear(t)
    \/ DataReturn(t)
    \/ MissLock(t)
    \/ MissPut(t)

DataNext(t, log) ==
    \/ \E id \in Ids : CallData(t, id, log)
    \/ DataSteps(t)

UnitsSteps(t) ==
    \/ UnitsCheckFresh(t)
    \/ UnitsLoad(t)
    \/ UnitsLock(t)
    \/ UnitsPut(t)

UnitsNext(t, log) ==
    \/ CallUnits(t, log)
    \/ UnitsSteps(t)

DescSteps(t) ==
    \/ DescCheckFresh(t)
    \/ DescLoad(t)
    \/ DescLock(t)
    \/ DescPut(t)

DescNext(t, log) ==
    \/ \E l \in DescKeys : CallDesc(t, l, log)
    \/ DescSteps(t)

\* any number of threads call get_data_map concurrently, over any ids,
\* while the clock advances and the data files change
DataInit == CacheInit /\ focus = "data"

Next ==
    \/ ClockTick(MaxTimeConcurrent)
    \/ DataFilesNext
    \/ \E t \in Threads : DataNext(t, FALSE)

Spec == DataInit /\ [][Next]_vars

\* one caller: the calls of a resolver come one after the other, the last
\* one is kept in hist
SeqNext ==
    \/ EnvNext
    \/ DataNext(1, TRUE)
    \/ UnitsNext(1, TRUE)
    \/ DescNext(1, TRUE)

SpecSeq == CacheInit /\ [][SeqNext]_vars

(***************************************************************************)
(* One call of negotiate_language on a header of the model.                *)
(***************************************************************************)
NegInit ==
    /\ ModuleInit
    /\ NoFiles
    /\ now = 0
    /\ fver = 0
    /\ focus = "none"
    /\ header \in Headers
    /\ SUPPORTED_LANGS \in (SUBSET Langs) \ {{}}
    /\ DEFAULT_LANG \in Langs
    /\ npc = "call"
    /\ neg = [lang |-> <<>>, by |-> 0 - 1]
    /\ CANON_KEYS = <<>>
    /\ req = NoReq

\* main, line 326: the one call of negotiate_language
Negotiate ==
    /\ npc = "call"
    /\ neg' = negotiate_language(header, SUPPORTED_LANGS, DEFAULT_LANG)
    /\ npc' = "done"
    /\ UNCHANGED <<header, SUPPORTED_LANGS, DEFAULT_LANG, CANON_KEYS, req,
                   envVars, cacheVars, runVars>>

NegNext == Negotiate

SpecNeg == NegInit /\ [][NegNext]_vars

(***************************************************************************)
(* The three resolvers called concurrently by the threads, under fair      *)
(* scheduling: a thread that can take a step eventually takes one, and a   *)
(* thread waiting for a lock that is free again and again eventually gets  *)
(* it.  Whether a thread calls again is left open (no fairness on calls).  *)
(***************************************************************************)
LiveInit ==
    /\ NegOff
    /\ ModuleInit
    /\ now = 0
    /\ fver = 0
    /\ focus = "live"
    /\ dataFile = [id \in Ids |-> FAbsent]
    /\ i18nFile = [l \in DescKeys |-> IF l = LangEn THEN FTable(l) ELSE FAbsent]
    /\ unitsFile = FAbsent

\* the steps of thread t inside a call, of whichever resolver
Steps(t) == DataSteps(t) \/ UnitsSteps(t) \/ DescSteps(t)

\* the steps that enter a `with lock:` (lines 94, 199, 223, 228, 269)
LockSteps(t) ==
    \/ DataLock(t)
    \/ MissClearLock(t)
    \/ MissLock(t)
    \/ UnitsLock(t)
    \/ DescLock(t)

LiveNext ==
    \/ ChangeDataFile(IdX, FDataMap)
    \/ \E t \in Threads :
          \/ \E id \in Ids : CallData(t, id, FALSE)
          \/ CallUnits(t, FALSE)
          \/ CallDesc(t, LangEn, FALSE)
          \/ Steps(t)

FairScheduling ==
    \A t \in Threads : WF_vars(Steps(t)) /\ SF_vars(LockSteps(t))

SpecLive == LiveInit /\ [][LiveNext]_vars /\ FairScheduling

(***************************************************************************)
(* main, lines 324-373: one request after the other (warm invocations),    *)
(* served by thread 1.                                                     *)
(***************************************************************************)
\* the ids requested: a well-formed one, and three that are not (too
\* short, upper case, a path)
BadIds == { <<"i","d","0">>, <<"I","D","0","1">>, <<".",".","/","x">> }
MainIds == {IdX} \cup BadIds

MainHeaders ==
    { <<>>,
      <<"d","e">>,
      <<"d","e","-","C","H",";","q","=","0",".","9">>,
      <<"f","r",";","q","=","0",".","9">> }

CanonConfigs == { <<>>, << <<"b">>, <<"a">> >>, << <<"a">>, <<"a">>, <<"z">> >> }

\* _error_response and the 200 response (lines 307-321, 362-366): the
\* status, the Content-Language header and the keys of list-attribute
Response(status, lang, keys) ==
    [statusCode |-> status, lang |-> normalize_lang_for_header(lang),
     keys |-> keys]

MainInit ==
    /\ ModuleInit
    /\ now = 0
    /\ fver = 0
    /\ focus = "main"
    /\ dataFile \in [Ids -> OtherContents]
    /\ dataFile[IdY] = FAbsent
    /\ i18nFile \in [DescKeys -> UNION {I18nContents(l) : l \in DescKeys}]
    /\ i18nFile[LangDeCh] = FAbsent
    /\ i18nFile[LangDe] \in {FAbsent, FTable(LangDe)}
    /\ i18nFile[LangEn] = FTable(LangEn)
    /\ unitsFile \in UnitsContents
    /\ header = <<>>
    /\ SUPPORTED_LANGS \in {{LangEn}, {LangDe, LangEn}}
    /\ DEFAULT_LANG = LangEn
    /\ CANON_KEYS \in {<<>>, << <<"b">>, <<"a">> >>}
    /\ npc = "idle"
    /\ neg = [lang |-> <<>>, by |-> 0 - 1]
    /\ req = NoReq

mainFrame == <<SUPPORTED_LANGS, DEFAULT_LANG, CANON_KEYS, envVars, cacheVars,
               locks, focus, hist, asked, missed>>

\* line 324: a request comes in
MainCall(hdr, id) ==
    /\ focus = "main"
    /\ npc \in {"idle", "resp"}
    /\ header' = hdr
    /\ req' = [NoReq EXCEPT !.item_id = id, !.snap = Snap]
    /\ npc' = "call"
    /\ th' = [th EXCEPT ![1] = IdleCall]
    /\ UNCHANGED <<neg, mainFrame>>

\* lines 331-335
MainValidate ==
    /\ focus = "main"
    /\ npc = "done"
    /\ IF ValidItemId(req.item_id)
       THEN npc' = "m_desc" /\ req' = req
       ELSE /\ npc' = "resp"
            /\ req' = [req EXCEPT !.response = Response(400, neg.lang, <<>>)]
    /\ UNCHANGED <<header, neg, th, mainFrame>>

\* lines 337-339: the call of a resolver begins
MainCallResolver(at, op, key, pc, preEntry, then) ==
    /\ npc = at
    /\ Enter(1, op, key, pc, preEntry, TRUE)
    /\ npc' = then
    /\ UNCHANGED <<header, neg, req, mainFrame>>

MainGetDescriptions ==
    MainCallResolver("m_desc", "desc", neg.lang, "g_check",
                     DESC_CACHE[neg.lang], "w_desc")

MainGetUnits ==
    MainCallResolver("m_units", "units", UnitsKey, "u_check", UNITS_CACHE,
                     "w_units")

MainGetData ==
    MainCallResolver("m_data", "data", req.item_id, "d_miss",
                     DictGet(DATA_CACHE, req.item_id, NoEntry), "w_data")

\* the resolver is back: an exception goes to the handler of line 368
MainGot(at, field, then) ==
    /\ npc = at
    /\ th[1].pc = "ret"
    /\ IF th[1].res.kind = "error"
       THEN /\ npc' = "resp"
            /\ req' = [req EXCEPT !.response = Response(500, neg.lang, <<>>)]
       ELSE /\ npc' = then
            /\ req' = [req EXCEPT ![field] = th[1].res.v]
    /\ UNCHANGED <<header, neg, th, mainFrame>>

MainGotDescriptions == MainGot("w_desc", "descriptions", "m_units")

MainGotUnits == MainGot("w_units", "units_map", "m_data")

\* lines 339-366: None is answered 404, a data map 200 with its keys
MainGotData ==
    /\ npc = "w_data"
    /\ th[1].pc = "ret"
    /\ npc' = "resp"
    /\ req' =
         IF th[1].res.kind = "error"
         THEN [req EXCEPT !.response = Response(500, neg.lang, <<>>)]
         ELSE IF th[1].res.kind = "absent"
         THEN [req EXCEPT !.response = Response(404, neg.lang, <<>>)]
         ELSE [req EXCEPT
                 !.values_map = th[1].res.v,
                 !.response =
                     Response(200, neg.lang,
                              determine_output_keys(req.descriptions,
                                                    th[1].res.v,
                                                    req.units_map))]
    /\ UNCHANGED <<header, neg, th, mainFrame>>

MainNext ==
    \/ \E hdr \in MainHeaders : \E id \in MainIds : MainCall(hdr, id)
    \/ Negotiate
    \/ MainValidate
    \/ MainGetDescriptions
    \/ MainGotDescriptions
    \/ MainGetUnits
    \/ MainGotUnits
    \/ MainGetData
    \/ MainGotData
    \/ DescSteps(1)
    \/ UnitsSteps(1)
    \/ DataSteps(1)
    \/ ClockTick(MaxTimeConcurrent)
    \/ \E c \in OtherContents : ChangeDataFile(IdX, c)

SpecMain == MainInit /\ [][MainNext]_vars

(***************************************************************************)
(* _determine_output_keys on its own: every triple of mappings over the    *)
(* keys of the model, every configuration of CANON_KEYS, called twice.     *)
(***************************************************************************)
AllMappings == {JDict(n) : n \in 0..(2 ^ Len(KeyNames) - 1)}

KeysInit ==
    /\ ModuleInit
    /\ NoFiles
    /\ now = 0
    /\ fver = 0
    /\ focus = "keys"
    /\ header = <<>>
    /\ SUPPORTED_LANGS = Langs
    /\ DEFAULT_LANG = LangEn
    /\ neg = [lang |-> <<>>, by |-> 0 - 1]
    /\ CANON_KEYS \in CanonConfigs
    /\ npc = "keys"
    /\ \E d \in AllMappings : \E v \in AllMappings : \E u \in AllMappings :
          req = [NoReq EXCEPT !.descriptions = d, !.values_map = v,
                              !.units_map = u]

\* line 344: the call
DetermineOutputKeys ==
    /\ npc = "keys"
    /\ npc' = "keyed"
    /\ req' = [req EXCEPT !.response.keys =
                  determine_output_keys(req.descriptions, req.values_map,
                                        req.units_map)]
    /\ UNCHANGED <<header, SUPPORTED_LANGS, DEFAULT_LANG, neg, CANON_KEYS,
                   envVars, cacheVars, runVars>>

\* the same call once more, on the same mappings
DetermineOutputKeysAgain ==
    /\ npc = "keyed"
    /\ npc' = "keyed twice"
    /\ req' = [req EXCEPT !.again =
                  determine_output_keys(req.descriptions, req.values_map,
                                        req.units_map)]
    /\ UNCHANGED <<header, SUPPORTED_LANGS, DEFAULT_LANG, neg, CANON_KEYS,
                   envVars, cacheVars, runVars>>

KeysNext == DetermineOutputKeys \/ DetermineOutputKeysAgain

SpecKeys == KeysInit /\ [][KeysNext]_vars

(***************************************************************************)
(* _bounded_put on its own, lines 87-97: puts into _DATA_CACHE with a      *)
(* capacity of PutCapacity, over three keys and two values.  hist keeps    *)
(* the last put: the cache before it, the key and the value put, and for   *)
(* every key the number of the put that inserted it (-1 when it is not in  *)
(* the cache), which is history.                                           *)
(***************************************************************************)
IdZ == <<"i","d","0","3">>
PutKeys == {IdX, IdY, IdZ}
PutValues == {Entry(JDict(2), 0), Entry(JEmptyDict, 0)}

NoPut ==
    [before |-> <<>>, key |-> <<>>, value |-> NoEntry, n |-> 0,
     eldest |-> <<>>, born |-> [k \in PutKeys |-> 0 - 1]]

PutInit ==
    /\ NegOff
    /\ ModuleInit
    /\ NoFiles
    /\ now = 0
    /\ fver = 0
    /\ focus = "put"

\* the key inserted first among those in the cache, <<>> in an empty cache
Eldest(born) ==
    IF \A k \in PutKeys : born[k] < 0 THEN <<>>
    ELSE CHOOSE k \in PutKeys :
            /\ born[k] >= 0
            /\ \A j \in PutKeys : born[j] >= 0 => born[k] <= born[j]

\* the insertion numbers after the n-th put, of key, at the given capacity
BornAfter(born, key, n, full) ==
    LET kept == IF full THEN [born EXCEPT ![Eldest(born)] = 0 - 1] ELSE born
    IN IF kept[key] >= 0 THEN kept ELSE [kept EXCEPT ![key] = n]

\* one call _bounded_put(_DATA_CACHE, key, value, PutCapacity, _DATA_LOCK)
BoundedPut(key, value) ==
    /\ focus = "put"
    /\ locks["DATA"] = 0
    /\ LET last == IF hist = <<>> THEN NoPut ELSE hist[1]
       IN /\ last.n < MaxPuts
          /\ hist' = <<[before |-> DATA_CACHE, key |-> key, value |-> value,
                        n |-> last.n + 1, eldest |-> Eldest(last.born),
                        born |-> BornAfter(last.born, key, last.n + 1,
                                           Len(DATA_CACHE) >= PutCapacity)]>>
    /\ DATA_CACHE' = bounded_put(DATA_CACHE, key, value, PutCapacity)
    /\ UNCHANGED <<negVars, envVars, DATA_MISS_CACHE, DESC_CACHE, UNITS_CACHE,
                   locks, focus, th, asked, missed>>

PutNext == \E key \in PutKeys : \E value \in PutValues : BoundedPut(key, value)

SpecPut == PutInit /\ [][PutNext]_vars

(***************************************************************************)
(* Claims about negotiate_language (checked under SpecNeg).                *)
(***************************************************************************)
\* C2: with the default a member of the supported set, negotiate_language
\* returns a member of the supported set, for every header.
C2_ResultSupported ==
    (npc = "done" /\ DEFAULT_LANG \in SUPPORTED_LANGS)
        => neg.lang \in SUPPORTED_LANGS

\* a call that returned the base of a region-qualified entry, not the default
C2_Witness ==
    /\ npc = "done"
    /\ DEFAULT_LANG \in SUPPORTED_LANGS
    /\ neg.by >= 0
    /\ neg.lang # DEFAULT_LANG
    /\ Parsed(header)[neg.by + 1].lang # neg.lang

\* The reference of C3, stated on the parsed candidates without sorting:
\* what a candidate matches (exact tag, else the base of a region tag) ...
RefMatch(c, S) ==
    IF c.lang \in S THEN <<c.lang>>
    ELSE IF Contains(c.lang, <<"-">>) /\ BaseOf(c.lang) \in S
         THEN <<BaseOf(c.lang)>>
    ELSE <<>>

\* ... and the match of the acceptable matching candidate that no other one
\* precedes in (weight descending, position ascending)
RefNegotiate(hdr, S, d) ==
    LET ps    == Parsed(hdr)
        cands == {i \in DOMAIN ps : ps[i].q > 0 /\ RefMatch(ps[i], S) # <<>>}
    IN IF hdr = <<>> \/ cands = {} THEN d
       ELSE LET best == CHOOSE i \in cands : \A j \in cands :
                            \/ ps[i].q > ps[j].q
                            \/ (ps[i].q = ps[j].q /\ i <= j)
            IN RefMatch(ps[best], S)[1]

ExampleHeader ==
    <<"d","e","-","C","H",";","q","=","0",".","9",",",
      "f","r",";","q","=","0",".","9">>

\* C3: negotiate_language equals the reference (candidates by weight
\* descending, ties by position; weight <= 0 skipped; exact tag, then base,
\* per candidate; first match; else the default), and
\* "de-CH;q=0.9,fr;q=0.9" with {de, fr} gives "de".
C3_EqualsReference ==
    npc = "done" =>
        /\ neg.lang = RefNegotiate(header, SUPPORTED_LANGS, DEFAULT_LANG)
        /\ (header = ExampleHeader /\ SUPPORTED_LANGS = {LangDe, LangFr})
               => neg.lang = LangDe

\* the example of the claim, with a default outside the supported set
C3_Witness ==
    /\ npc = "done"
    /\ header = ExampleHeader
    /\ SUPPORTED_LANGS = {LangDe, LangFr}
    /\ DEFAULT_LANG = LangEn
    /\ neg.lang = LangDe

\* C4: the entry that produced the returned language never has a weight
\* <= 0, and when every entry has a weight <= 0 the default is returned.
C4_ZeroWeightNeverSelected ==
    npc = "done" =>
        LET ps == Parsed(header)
        IN /\ neg.by >= 0 => ps[neg.by + 1].q > 0
           /\ (\A i \in DOMAIN ps : ps[i].q <= 0)
                 => (neg.by = 0 - 1 /\ neg.lang = DEFAULT_LANG)

\* a supported entry of weight <= 0 ahead of the entry that was returned
C4_Witness ==
    /\ npc = "done"
    /\ neg.by >= 1
    /\ \E i \in DOMAIN Parsed(header) :
          /\ Parsed(header)[i].q <= 0
          /\ RefMatch(Parsed(header)[i], SUPPORTED_LANGS) # <<>>
          /\ i - 1 < neg.by

(***************************************************************************)
(* Claims about get_data_map under concurrent callers (checked under Spec).*)
(***************************************************************************)
\* C1: in every state, under any interleaving of concurrent callers over
\* any ids, _DATA_CACHE holds at most MAX_DATA_CACHE_ENTRIES entries and
\* _DATA_MISS_CACHE at most MAX_MISS_CACHE_ENTRIES.
C1_BoundedCaches ==
    /\ Len(DATA_CACHE) <= MAX_DATA_CACHE_ENTRIES
    /\ Cardinality(DictKeys(DATA_CACHE)) = Len(DATA_CACHE)
    /\ Len(DATA_MISS_CACHE) <= MAX_MISS_CACHE_ENTRIES
    /\ Cardinality(DictKeys(DATA_MISS_CACHE)) = Len(DATA_MISS_CACHE)

\* both caches are full, and the entry that a returned call had put was
\* evicted by the put of another id
C1_Witness ==
    /\ Len(DATA_CACHE) = MAX_DATA_CACHE_ENTRIES
    /\ Len(DATA_MISS_CACHE) = MAX_MISS_CACHE_ENTRIES
    /\ \E t \in Threads :
          /\ th[t].pc = "ret" /\ th[t].res.kind = "ok" /\ th[t].att # <<>>
          /\ ~DictHas(DATA_CACHE, th[t].key)

\* the runs of C9: the file of IdX is present and well formed and is not
\* changed, and no other id was ever requested
ColdRunOnX ==
    /\ fver = 0
    /\ dataFile[IdX] = FDataMap
    /\ asked \subseteq {IdX}

\* C9: when all callers request the same present id on a cold cache, every
\* call returns its data map, every value bound to it in _DATA_CACHE is a
\* complete entry (data map and load timestamp), and once the calls have
\* returned _DATA_CACHE holds exactly one entry for it.
C9_ColdConcurrentLoad ==
    ColdRunOnX =>
        /\ \A t \in Threads :
              th[t].pc = "ret" => th[t].res = ROk(JDict(2))
        /\ \A i \in DOMAIN DATA_CACHE :
              /\ DATA_CACHE[i].k = IdX
              /\ DATA_CACHE[i].v.has
              /\ DATA_CACHE[i].v.v = JDict(2)
              /\ DATA_CACHE[i].v.at \in 0..now
        /\ (\A t \in Threads : th[t].pc = "ret")
              => (Len(DATA_CACHE) = 1 /\ DATA_CACHE[1].k = IdX)

\* every caller loaded the file itself (redundant loads), all have returned
C9_Witness ==
    /\ ColdRunOnX
    /\ \A t \in Threads :
          /\ th[t].pc = "ret"
          /\ th[t].att = <<[k |-> IdX, out |-> "ok"]>>
          /\ th[t].res = ROk(JDict(2))
    /\ Len(DATA_CACHE) = 1

(***************************************************************************)
(* Claims about the resolvers called one call after the other (checked     *)
(* under SpecSeq).  th[1] at "ret" is the call that has just returned,     *)
(* hist[1] the call before it.                                             *)
(***************************************************************************)
Ttl(op) ==
    IF op = "data" THEN DATA_CACHE_TTL_SECONDS
    ELSE IF op = "units" THEN UNITS_CACHE_TTL_SECONDS
    ELSE DESC_CACHE_TTL_SECONDS

Returned == th[1].pc = "ret"

\* two calls of the same resolver with the same key, nothing in between
Consecutive ==
    /\ hist # <<>>
    /\ Returned
    /\ hist[1].op = th[1].op
    /\ hist[1].key = th[1].key

\* time t lies in the window of the cache record that backs the outcome of
\* the call r: less than the ttl after the entry's loaded_at, or before the
\* expiry of the miss record
InWindow(r, t) ==
    /\ r.post.has
    /\ IF r.post.kind = "pos" THEN t - r.post.at < Ttl(r.op)
       ELSE r.post.kind = "neg" /\ t < r.post.at

\* C5: for get_data_map and get_units_map, two consecutive calls with the
\* same key, the second within the TTL window of what the first one
\* returned (the window of the entry for a present file, of the miss record
\* for an absent data file), the file unchanged (present or absent): the
\* second call returns the same result and makes no load attempt.
C5_IdempotentWithinTtl ==
    ( /\ Consecutive
      /\ th[1].op \in {"data", "units"}
      /\ hist[1].res.kind \in {"ok", "absent"}
      /\ hist[1].fv0 = fver
      /\ InWindow(hist[1], th[1].now_mono) )
    => (th[1].res = hist[1].res /\ th[1].att = <<>>)

\* a first call that loaded a present data file, a second one Tick seconds
\* later served without a load
C5_Witness ==
    /\ Consecutive
    /\ th[1].op = "data"
    /\ hist[1].res = ROk(JDict(2))
    /\ hist[1].fv0 = fver
    /\ hist[1].post.at + Tick = th[1].now_mono
    /\ th[1].res = ROk(JDict(2))
    /\ th[1].att = <<>>

\* the candidates of get_descriptions(lang) in order, written out: the
\* language, its base when it has a region, the default, each one once
ExpectedChain(lang) ==
    LET base == IF Contains(lang, <<"-">>) /\ BaseOf(lang) # lang
                THEN <<BaseOf(lang)>> ELSE <<>>
        own  == <<lang>> \o base
    IN IF \E i \in DOMAIN own : own[i] = DEFAULT_LANG THEN own
       ELSE own \o <<DEFAULT_LANG>>

\* two consecutive get_descriptions calls for the same language, the first
\* one returned a table, the description files are unchanged since it
\* began, and the second one is within the TTL window of the entry that
\* served the first
DescRepeat ==
    /\ Consecutive
    /\ th[1].op = "desc"
    /\ hist[1].res.kind = "ok"
    /\ hist[1].fv0 = fver
    /\ InWindow(hist[1], th[1].now_mono)

\* C6 as stated: the second call returns the same table and makes no load
\* attempt, also when a later candidate of the chain served the table.
C6_RepeatMakesNoLoadAttempt ==
    DescRepeat => (th[1].res = hist[1].res /\ th[1].att = <<>>)

\* C6, amended: the second call returns the same table from the same
\* candidate and loads no table; it attempts the load of exactly the
\* candidates that precede the serving one, each attempt ends in not-found,
\* and it attempts nothing when the requested language itself served.
C6_RepeatRetriesOnlyMissingCandidates ==
    DescRepeat =>
        LET ch == ExpectedChain(th[1].key)
            n  == CHOOSE i \in DOMAIN ch : ch[i] = hist[1].by
        IN /\ \E i \in DOMAIN ch : ch[i] = hist[1].by
           /\ th[1].res = hist[1].res
           /\ th[1].by = hist[1].by
           /\ th[1].att = [i \in 1..(n - 1) |->
                             [k |-> ch[i], out |-> "FileNotFoundError"]]

\* de-ch asked twice, served by the default both times: the second call
\* tried de-ch and de again
C6_Witness ==
    /\ DescRepeat
    /\ th[1].key = LangDeCh
    /\ hist[1].by = LangEn
    /\ th[1].res = hist[1].res
    /\ Len(th[1].att) = 2

\* the entry of a key in the cache of a resolver
EntryOf(op, key) ==
    IF op = "data" THEN DictGet(DATA_CACHE, key, NoEntry)
    ELSE IF op = "units" THEN UNITS_CACHE
    ELSE DESC_CACHE[key]

\* the file of the key is present and well formed
WellFormed(op, key) ==
    IF op = "data" THEN dataFile[key] = FDataMap
    ELSE IF op = "units" THEN unitsFile = FUnits
    ELSE i18nFile[key] = FTable(key)

\* the call before was served by the entry of the key itself
BackedByOwnEntry ==
    /\ Consecutive
    /\ hist[1].res.kind = "ok"
    /\ hist[1].by = hist[1].key
    /\ hist[1].post.has

\* C7: in each of the three caches (a) a call is served from the cache iff
\* the entry of its key exists and now - loaded_at < ttl, so at exactly
\* loaded_at + ttl it is not; (b) the first access at or after the expiry,
\* the file being present and well formed, makes exactly one load and
\* replaces the entry, stamped with the time of that access; (c) the next
\* access within the window of an entry makes no load.
C7_FreshIffWithinTtl ==
    /\ Returned =>
          ( (th[1].res.kind = "ok" /\ th[1].att = <<>>)
            <=> (th[1].pre.has
                 /\ th[1].now_mono - th[1].pre.at < Ttl(th[1].op)) )
    /\ ( /\ BackedByOwnEntry
         /\ th[1].now_mono - hist[1].post.at >= Ttl(th[1].op)
         /\ th[1].fv0 = fver
         /\ WellFormed(th[1].op, th[1].key) )
       => /\ th[1].att = <<[k |-> th[1].key, out |-> "ok"]>>
          /\ th[1].res.kind = "ok"
          /\ EntryOf(th[1].op, th[1].key) =
                Entry(th[1].res.v, th[1].now_mono)
    /\ ( /\ BackedByOwnEntry
         /\ th[1].now_mono - hist[1].post.at < Ttl(th[1].op) )
       => (th[1].att = <<>> /\ th[1].res = hist[1].res)

\* an access at exactly loaded_at + ttl: one load, the entry replaced
C7_Witness ==
    /\ BackedByOwnEntry
    /\ th[1].now_mono - hist[1].post.at = Ttl(th[1].op)
    /\ th[1].att = <<[k |-> th[1].key, out |-> "ok"]>>
    /\ EntryOf(th[1].op, th[1].key) = Entry(th[1].res.v, th[1].now_mono)
    /\ th[1].now_mono > hist[1].post.at

\* the call that has just returned is a get_data_map for an id whose last
\* miss, observed by an earlier call at time missed[id], is still open
AfterMiss ==
    /\ Returned
    /\ th[1].op = "data"
    /\ missed[th[1].key] >= 0

\* the call was issued before the miss expired
BeforeMissExpiry == th[1].now_mono < missed[th[1].key] + MissTtl

\* what the negative cache does to a call after a miss: before the expiry
\* it reports absence without a load, whatever the file holds by now; at
\* or after it, the file being present, well formed and left alone during
\* the call, it loads and returns the resource
MissRoundTrip ==
    /\ BeforeMissExpiry => (th[1].res = RAbsent /\ th[1].att = <<>>)
    /\ ( /\ ~BeforeMissExpiry
         /\ dataFile[th[1].key] = FDataMap
         /\ th[1].fv0 = fver )
       => /\ th[1].att = <<[k |-> th[1].key, out |-> "ok"]>>
          /\ th[1].res = ROk(JDict(2))

\* C8 as stated: after a miss of X at t, every get_data_map(X) issued before
\* t + min(60, DATA_CACHE_TTL_SECONDS) reports absence without a load,
\* whatever other ids were resolved in between, and the first one at or
\* after that expiry loads and returns the resource.
C8_MissHidesResourceUntilExpiry ==
    AfterMiss => MissRoundTrip

\* C8, amended: the same, for the calls that find the miss record of X
\* still in _DATA_MISS_CACHE, i.e. not evicted by the misses of other ids.
C8_MissRecordKeptHidesUntilExpiry ==
    (AfterMiss /\ DictHas(th[1].snap[2], th[1].key)) => MissRoundTrip

\* the file of the id was created after the miss and the call, issued
\* before the expiry, still reported absence without a load
C8_Witness ==
    /\ AfterMiss
    /\ DictHas(th[1].snap[2], th[1].key)
    /\ BeforeMissExpiry
    /\ th[1].now_mono > missed[th[1].key]
    /\ dataFile[th[1].key] = FDataMap
    /\ th[1].fv0 = fver
    /\ th[1].res = RAbsent
    /\ th[1].att = <<>>

\* the call that has just returned made a load attempt and the file it read
\* last, left alone during the call, holds a value that is not a mapping
\* (for data: at the top level or in its "data" member)
LoadedNonMapping ==
    /\ Returned
    /\ th[1].att # <<>>
    /\ th[1].fv0 = fver
    /\ \/ th[1].op = "data"
          /\ dataFile[th[1].key] \in {FTopList, FDataFalse, FDataList}
       \/ th[1].op = "desc"
          /\ i18nFile[th[1].att[Len(th[1].att)].k] = FTopList

\* C10: a get_data_map or get_descriptions call that loaded content which is
\* not a mapping fails with an error other than the not-found outcome, and
\* leaves the positive caches and the negative cache as they were.
C10_NonMappingFailsUncached ==
    LoadedNonMapping =>
        /\ th[1].res.kind = "error"
        /\ th[1].res.err \notin {"FileNotFoundError", "RuntimeError"}
        /\ Snap = th[1].snap

\* the call that has just returned is a get_units_map
UnitsReturned == Returned /\ th[1].op = "units"

\* the entry the call found was fresh
FoundFresh ==
    th[1].pre.has /\ th[1].now_mono - th[1].pre.at < Ttl(th[1].op)

\* when the units file is absent (and left alone during the call) and the
\* call had to load, it returns {} and caches it
AbsentUnitsCachedEmpty ==
    ( /\ UnitsReturned
      /\ ~FoundFresh
      /\ th[1].fv0 = fver
      /\ unitsFile = FAbsent )
    => /\ th[1].res = ROk(JEmptyDict)
       /\ UNITS_CACHE = Entry(JEmptyDict, th[1].now_mono)

\* C11 as stated: get_units_map never fails; whatever the units file holds
\* (nothing, a mapping, something that is not a mapping) and whatever the
\* cache holds it returns a mapping, the empty one, cached, for an absent
\* file.
C11_UnitsNeverFails ==
    /\ UnitsReturned => (th[1].res.kind = "ok" /\ IsDict(th[1].res.v))
    /\ AbsentUnitsCachedEmpty

\* C11, amended: get_units_map returns a mapping or raises ValueError; with
\* the file left alone during the call it raises exactly when the cached
\* entry is not fresh and the file holds something that is not a mapping,
\* and then it changes no cache; for an absent file it returns {} and
\* caches it.
C11_UnitsFailsOnlyOnNonMapping ==
    /\ UnitsReturned =>
          \/ th[1].res.kind = "ok" /\ IsDict(th[1].res.v)
          \/ /\ th[1].res = RErr("ValueError")
             /\ th[1].att = <<[k |-> UnitsKey, out |-> "ValueError"]>>
             /\ Snap = th[1].snap
    /\ (UnitsReturned /\ th[1].fv0 = fver) =>
          ( th[1].res.kind = "error"
            <=> (~FoundFresh /\ unitsFile = FTopList) )
    /\ AbsentUnitsCachedEmpty

\* an absent units file: {} returned and cached by a call that loaded
C11_Witness ==
    /\ UnitsReturned
    /\ th[1].fv0 = fver
    /\ unitsFile = FAbsent
    /\ th[1].att = <<[k |-> UnitsKey, out |-> "FileNotFoundError"]>>
    /\ th[1].res = ROk(JEmptyDict)
    /\ UNITS_CACHE = Entry(JEmptyDict, th[1].now_mono)

\* the call that has just returned is a get_descriptions, with the
\* description files left alone while it ran
DescReturned ==
    /\ Returned
    /\ th[1].op = "desc"
    /\ th[1].fv0 = fver

\* candidate c had a fresh entry in _DESC_CACHE when the call began
WasFresh(c) ==
    LET e == th[1].snap[3][c]
    IN e.has /\ th[1].now_mono - e.at < DESC_CACHE_TTL_SECONDS

\* the positions of the chain whose candidate is fresh or has a file
UsableAt(ch) ==
    {i \in DOMAIN ch : WasFresh(ch[i]) \/ i18nFile[ch[i]] # FAbsent}

\* C12: get_descriptions(lang) walks [lang, base of lang if different,
\* default], duplicates removed in order; every candidate before the first
\* one that is fresh or has a file is tried and not found; the call returns
\* the table of that first candidate (the cached one when fresh, else the
\* loaded one); it fails with the resolution failure (RuntimeError) iff no
\* candidate is fresh and no candidate's file exists.
C12_WalksChainToFirstUsable ==
    DescReturned =>
        LET ch   == ExpectedChain(th[1].key)
            hits == UsableAt(ch)
            n    == IF hits = {} THEN Len(ch) + 1
                    ELSE CHOOSE i \in hits : \A j \in hits : i <= j
            notFound == [i \in 1..(n - 1) |->
                           [k |-> ch[i], out |-> "FileNotFoundError"]]
        IN /\ (th[1].res = RErr("RuntimeError")) <=> (hits = {})
           /\ hits = {} => th[1].att = notFound
           /\ hits # {} =>
                 IF WasFresh(ch[n])
                 THEN /\ th[1].res = ROk(th[1].snap[3][ch[n]].v)
                      /\ th[1].by = ch[n]
                      /\ th[1].att = notFound
                 ELSE /\ i18nFile[ch[n]] = FTable(ch[n])
                         => /\ th[1].res = ROk(TableOf(ch[n]))
                            /\ th[1].by = ch[n]
                      /\ Len(th[1].att) = n
                      /\ SubSeq(th[1].att, 1, n - 1) = notFound
                      /\ th[1].att[n].k = ch[n]

\* de-ch asked: its file is not found, the fresh entry of de serves it
C12_Witness ==
    /\ DescReturned
    /\ th[1].key = LangDeCh
    /\ ~WasFresh(LangDeCh)
    /\ WasFresh(LangDe)
    /\ th[1].att = <<[k |-> LangDeCh, out |-> "FileNotFoundError"]>>
    /\ th[1].res = ROk(TableOf(LangDe))
    /\ th[1].by = LangDe

(***************************************************************************)
(* Claims about main (checked under SpecMain).                             *)
(***************************************************************************)
\* C13: a request whose id is not exactly 4 characters of [a-z0-9] is
\* answered 400; from its arrival to its response no resolver is entered,
\* so no file is loaded, and the four caches stay as the request found
\* them, whatever they hold and whatever the header is.
C13_InvalidIdTouchesNothing ==
    req.item_id \in BadIds =>
        /\ npc \in {"call", "done", "resp"}
        /\ th[1] = IdleCall
        /\ Snap = req.snap
        /\ npc = "resp" => req.response.statusCode = 400

\* a path-like id answered 400 on warm caches, with a header that chose de
C13_Witness ==
    /\ npc = "resp"
    /\ req.item_id = <<".",".","/","x">>
    /\ req.response = [statusCode |-> 400, lang |-> LangDe, keys |-> <<>>]
    /\ DATA_CACHE # <<>>
    /\ DESC_CACHE[LangDe].has
    /\ UNITS_CACHE.has
    /\ Snap = req.snap

(***************************************************************************)
(* Claims about _determine_output_keys (checked under SpecKeys).           *)
(***************************************************************************)
\* every key of the three mappings
AllKeys ==
    KeysOf(req.descriptions) \cup KeysOf(req.values_map)
        \cup KeysOf(req.units_map)

\* every key of the three mappings is in the result exactly once, and the
\* result holds nothing else
EachKeyOnce(keys) ==
    /\ \A k \in AllKeys : Cardinality({i \in DOMAIN keys : keys[i] = k}) = 1
    /\ \A i \in DOMAIN keys : keys[i] \in AllKeys

\* 1 for a description key, 2 for another data key, 3 for another unit key
GroupOf(k) ==
    IF k \in KeysOf(req.descriptions) THEN 1
    ELSE IF k \in KeysOf(req.values_map) THEN 2
    ELSE 3

\* description keys first, then the other data keys, then the other unit
\* keys, alphabetical within each group
GroupedAlphabetical(keys) ==
    \A i \in DOMAIN keys : \A j \in DOMAIN keys :
        i < j =>
            \/ GroupOf(keys[i]) < GroupOf(keys[j])
            \/ GroupOf(keys[i]) = GroupOf(keys[j]) /\ StrLess(keys[i], keys[j])

\* C14 as stated: for every triple of mappings and every configuration of
\* CANON_KEYS two calls return the same sequence and every key of the three
\* mappings is in it exactly once (grouped and alphabetical when no
\* canonical order is configured).
C14_DeterministicAndComplete ==
    npc = "keyed twice" =>
        /\ req.again = req.response.keys
        /\ EachKeyOnce(req.response.keys)
        /\ CANON_KEYS = <<>> => GroupedAlphabetical(req.response.keys)

\* C14, amended: two calls return the same sequence; with no canonical order
\* configured every key of the three mappings is in it exactly once,
\* grouped and alphabetical; with a canonical order configured the result
\* is CANON_KEYS itself, whatever the mappings hold.
C14_CompleteUnlessCanonical ==
    npc = "keyed twice" =>
        /\ req.again = req.response.keys
        /\ CANON_KEYS = <<>> =>
              /\ EachKeyOnce(req.response.keys)
              /\ GroupedAlphabetical(req.response.keys)
        /\ CANON_KEYS # <<>> => req.response.keys = CANON_KEYS

\* no canonical order, the three mappings overlap pairwise and differ: all
\* three keys come out, "ab" of the descriptions ahead of "a" of the data
C14_Witness ==
    /\ npc = "keyed twice"
    /\ CANON_KEYS = <<>>
    /\ KeysOf(req.descriptions) = {<<"a","b">>}
    /\ KeysOf(req.values_map) = {<<"a">>, <<"a","b">>}
    /\ KeysOf(req.units_map) = {<<"b">>, <<"a">>}
    /\ req.response.keys = << <<"a","b">>, <<"a">>, <<"b">> >>

(***************************************************************************)
(* Claims about _bounded_put (checked under SpecPut).                      *)
(***************************************************************************)
\* the entries of a cache as a set of <<key, value>>
EntriesOf(c) == {<<c[i].k, c[i].v>> : i \in 1..Len(c)}

\* C15: a put into a cache of size >= max_entries removes exactly one
\* entry, that of the key inserted earliest among those present, before it
\* inserts (so that key, when it is the key put, moves to the end); a put
\* into a smaller cache removes nothing; either way every entry of another
\* key keeps its key and value, and the key put holds the value put.
C15_EvictsEldestOnly ==
    hist # <<>> =>
        LET p    == hist[1]
            full == Len(p.before) >= PutCapacity
            prior  == DictKeys(p.before)
            after   == DictKeys(DATA_CACHE)
        IN /\ Cardinality(after) = Len(DATA_CACHE)
           /\ <<p.key, p.value>> \in EntriesOf(DATA_CACHE)
           /\ \A e \in EntriesOf(DATA_CACHE) :
                 e[1] # p.key => e \in EntriesOf(p.before)
           /\ ~full => /\ after = prior \cup {p.key}
                       /\ \A e \in EntriesOf(p.before) :
                             e[1] # p.key => e \in EntriesOf(DATA_CACHE)
           /\ full => /\ after = (prior \ {p.eldest}) \cup {p.key}
                      /\ \A e \in EntriesOf(p.before) :
                            e[1] \notin {p.key, p.eldest}
                               => e \in EntriesOf(DATA_CACHE)
                      /\ p.eldest = p.key
                            => DATA_CACHE[Len(DATA_CACHE)].k = p.key

\* a put at capacity of a key that is in the cache and is not the eldest:
\* the eldest is removed and the cache shrinks to one entry
C15_Witness ==
    /\ hist # <<>>
    /\ Len(hist[1].before) = PutCapacity
    /\ hist[1].eldest = IdX
    /\ hist[1].key = IdY
    /\ IdY \in DictKeys(hist[1].before)
    /\ hist[1].value # DictGet(hist[1].before, IdY, NoEntry)
    /\ DATA_CACHE = <<[k |-> IdY, v |-> hist[1].value]>>

\* the call that has just returned loaded the file of candidate c
LoadedCandidate(c) ==
    /\ th[1].att # <<>>
    /\ th[1].att[Len(th[1].att)] = [k |-> c, out |-> "ok"]

\* C16: a get_descriptions call changes _DESC_CACHE at no key but that of
\* the candidate whose file it loaded, where it leaves the loaded table;
\* every other key, the requested language served by a fallback included,
\* keeps the entry it had when the call began, and a candidate whose file
\* was not found gets no entry.
C16_WritesOnlyLoadedCandidate ==
    (Returned /\ th[1].op = "desc") =>
        /\ \A c \in DescKeys :
              IF LoadedCandidate(c)
              THEN /\ DESC_CACHE[c].has
                   /\ th[1].res = ROk(DESC_CACHE[c].v)
                   /\ th[1].by = c
              ELSE DESC_CACHE[c] = th[1].snap[3][c]
        /\ \A i \in DOMAIN th[1].att :
              th[1].att[i].out = "FileNotFoundError"
                 => DESC_CACHE[th[1].att[i].k] = th[1].snap[3][th[1].att[i].k]

\* de-ch asked with an empty cache: its file is not found, the file of de
\* is loaded; de has the entry, de-ch and en have none
C16_Witness ==
    /\ Returned
    /\ th[1].op = "desc"
    /\ th[1].key = LangDeCh
    /\ th[1].att = <<[k |-> LangDeCh, out |-> "FileNotFoundError"],
                     [k |-> LangDe, out |-> "ok"]>>
    /\ DESC_CACHE[LangDe].has
    /\ ~DESC_CACHE[LangDeCh].has
    /\ ~DESC_CACHE[LangEn].has

(***************************************************************************)
(* Claims about the time an entry carries (checked under SpecSeq).         *)
(***************************************************************************)
\* C17: every entry a load writes into _DATA_CACHE, _DESC_CACHE or
\* _UNITS_CACHE carries as loaded_at the monotonic time of the moment it is
\* put, also when the clock advanced between the start of the call and the
\* end of the load.
C17_StampedAtPut ==
    [][/\ UNITS_CACHE' # UNITS_CACHE => UNITS_CACHE'.at = now
       /\ \A c \in DescKeys :
             DESC_CACHE'[c] # DESC_CACHE[c] => DESC_CACHE'[c].at = now
       /\ \A id \in Ids :
             (/\ DictHas(DATA_CACHE', id)
              /\ DictGet(DATA_CACHE', id, NoEntry)
                    # DictGet(DATA_CACHE, id, NoEntry))
                => DictGet(DATA_CACHE', id, NoEntry).at = now]_vars

(***************************************************************************)
(* Claims about concurrent get_data_map calls (checked under Spec).        *)
(***************************************************************************)
\* C18: whenever a get_data_map(X) call returns a data map it loaded,
\* _DATA_MISS_CACHE holds no record of X at the moment of the return, also
\* when other get_data_map(X) calls that found the file absent run
\* concurrently.
C18_NoMissRecordAtLoadedReturn ==
    [][\A t \in Threads :
          (th[t].pc = "d_ret" /\ th'[t].pc = "ret")
             => ~DictHas(DATA_MISS_CACHE', th[t].key)]_vars

\* C19: in every reachable state no id has at once a fresh entry in
\* _DATA_CACHE and an unexpired record in _DATA_MISS_CACHE.
C19_NeverFreshAndMissed ==
    \A id \in Ids :
        ~(/\ cache_fresh(DictGet(DATA_CACHE, id, NoEntry),
                         DATA_CACHE_TTL_SECONDS, now)
          /\ MissRecordLive(DictGet(DATA_MISS_CACHE, id, NoMiss), now))

(***************************************************************************)
(* Claims about locks and termination (checked under SpecLive).            *)
(***************************************************************************)
\* the locks thread t holds
HeldBy(t) == {l \in DOMAIN locks : locks[l] = t}

\* thread t is inside a call
InCall(t) == ~AtRest(t)

====
